---- MODULE Spec2Model ----
(***************************************************************************)
(* A model of CausalLM.generate (src/wenet/LLM/causal_model.py, lines      *)
(* 82-190): batch alignment, KV cache allocation, the decode loop and the  *)
(* output extraction.  Tensors are sequences of rows; Python's 0-based     *)
(* indices are kept in the state and translated by the helpers below.     *)
(* An exception raised by a line of generate ends the call in pc = "error" *)
(* with the exception's type and line recorded in error.                   *)
(***************************************************************************)
EXTENDS Integers, Sequences, FiniteSets, TLC

(* ------------------------------ bounds --------------------------------- *)
MaxBatch == 2
MaxPromptLen == 2
MaxOutputLen == 2
MaxPosLen == 3
MaxLayers == 1

(* ------------------------- program constants --------------------------- *)
VocabSize == 3
IGNORE_ID == -1
sos == 1
eos == 2

Vocab == 0..(VocabSize - 1)
None == "None"
\* a tensor-valued local that is None is the empty sequence (a temperatures
\* tensor, when there is one, has batch_size >= 1 entries)
NoTensor == <<>>
Temperatures == {None, "0.0", "0.95"}
NoError == [type |-> "none", line |-> 0]
Raised(t, l) == [type |-> t, line |-> l]

(* --------------------------- Python helpers ---------------------------- *)
\* min and max of a set of integers (0 for the empty set, which generate never
\* gets past: see MinRaises)
SetMin(S) == IF S = {} THEN 0 ELSE CHOOSE x \in S : \A y \in S : x <= y
SetMax(S) == IF S = {} THEN 0 ELSE CHOOSE x \in S : \A y \in S : x >= y
IntMin(a, b) == IF a <= b THEN a ELSE b

\* s[a:b] for 0 <= a and 0 <= b
PySlice(s, a, b) == SubSeq(s, a + 1, IntMin(b, Len(s)))

\* s.index(x), 0-based; only used when x occurs in s
PyIndex(s, x) == SetMin({k \in 1..Len(s) : s[k] = x}) - 1

\* x in s
PyIn(x, s) == \E k \in 1..Len(s) : s[k] = x

\* number of columns of a 2-D tensor with at least one row
Width(t) == Len(t[1])

\* torch.cat([a, b], dim=-1) is defined only when a and b have the same
\* number of rows
CatOk(a, b) == Len(a) = Len(b)
Cat(a, b) == [r \in 1..Len(a) |-> a[r] \o b[r]]

\* t.index_select(1, idx) for a scalar index: defined only for a valid column
ColumnOk(t, idx) == idx \in 0..(Width(t) - 1)
Column(t, idx) == [r \in 1..Len(t) |-> t[r][idx + 1]]

\* the column written one place to the left of idx
IndexCopyPrev(t, idx, col) ==
  [r \in 1..Len(t) |-> [c \in 1..Len(t[r]) |-> IF c = idx THEN col[r] ELSE t[r][c]]]

\* t.index_copy_(1, idx, col)
IndexCopy(t, idx, col) ==
  [r \in 1..Len(t) |-> [c \in 1..Len(t[r]) |-> IF c = idx + 1 THEN col[r] ELSE t[r][c]]]

\* self.embed(ids): torch.nn.Embedding raises IndexError for an id outside
\* [0, vocab_size)
EmbedOk(ids) == \A r \in 1..Len(ids) : \A c \in 1..Len(ids[r]) : ids[r][c] \in Vocab

(* ------------------------------- state --------------------------------- *)
VARIABLES
  prompts_tokens,           \* argument: List[List[int]]
  output_len,               \* argument
  temperature,              \* argument: None, 0.0 or a positive float
  max_len,                  \* self.decoder.pos_enc.max_len
  has_config,               \* whether the module object carries a config attribute
  num_hidden_layers,        \* self.config.num_hidden_layers, when it exists
  decoder_strict,           \* whether the decoder rejects inconsistent input shapes
  pc, error,
  allocated,                \* names of the buffers allocated so far
  kv_caches,
  token_ids_tensor,
  input_token_ids_tensor,
  prompt_mask_tensor,
  input_positions_tensor,
  att_mask,
  output_positions_tensor,
  temperatures_tensor,
  output_index,
  step,                     \* the loop variable i of line 150
  next_token_ids,
  results,
  decoder_calls,            \* number of self.decoder(...) invocations
  trace,                    \* history: token_ids_tensor and sampled ids after each write
  fed,                      \* history: the arguments of each self.decoder(...) call
  call_no, prev             \* second call on the same inputs

inputs == <<prompts_tokens, output_len, temperature, max_len, has_config,
            num_hidden_layers, decoder_strict>>
locals == <<pc, error, allocated, kv_caches, token_ids_tensor, input_token_ids_tensor,
            prompt_mask_tensor, input_positions_tensor, att_mask,
            output_positions_tensor, temperatures_tensor, output_index, step,
            next_token_ids, results, decoder_calls, trace, fed>>
vars == <<inputs, locals, call_no, prev>>

(* ------------------------- lines 95-98: sizes -------------------------- *)
batch_size == Len(prompts_tokens)
PromptLens == {Len(prompts_tokens[i]) : i \in 1..Len(prompts_tokens)}
min_prompt_len == SetMin(PromptLens)
max_prompt_len == SetMax(PromptLens)
max_seq_len == max_prompt_len + output_len

\* min() given a default, so that it no longer raises
MinNeverRaises(prompts) == FALSE

\* min() and max() of an empty generator raise ValueError
MinRaises(prompts) == Len(prompts) = 0

\* the capacity check made on the shortest prompt instead of the longest
CapacityOkShortest == min_prompt_len + output_len <= max_len

\* line 99: assert max_seq_len <= self.decoder.pos_enc.max_len
CapacityOk == max_seq_len <= max_len

(* --------------------------- the inputs -------------------------------- *)
SeqsUpTo(S, n) == UNION {[1..k -> S] : k \in 0..n}
\* prompt tokens: the end-of-sequence id and one ordinary id
PromptTokens == {0, eos}
Prompts == SeqsUpTo(PromptTokens, MaxPromptLen)
Batches == SeqsUpTo(Prompts, MaxBatch)
PosLens == (MaxPosLen - 1)..MaxPosLen

\* what is kept of a finished call
NoCall == [trace |-> <<>>, results |-> <<>>, pc |-> "none", error |-> NoError]

LocalsInit ==
  /\ pc = "start"
  /\ error = NoError
  /\ allocated = {}
  /\ kv_caches = <<>>
  /\ token_ids_tensor = <<>>
  /\ input_token_ids_tensor = <<>>
  /\ prompt_mask_tensor = <<>>
  /\ input_positions_tensor = <<>>
  /\ att_mask = <<>>
  /\ output_positions_tensor = 0
  /\ temperatures_tensor = NoTensor
  /\ output_index = 0
  /\ step = 0
  /\ next_token_ids = <<>>
  /\ results = <<>>
  /\ decoder_calls = 0
  /\ trace = <<>>
  /\ fed = <<>>

InputsInit ==
  /\ prompts_tokens \in Batches
  /\ output_len \in 0..MaxOutputLen
  /\ temperature \in Temperatures
  /\ max_len \in PosLens
  /\ has_config \in BOOLEAN
  /\ num_hidden_layers \in 0..MaxLayers
  /\ has_config = FALSE => num_hidden_layers = 0
  /\ decoder_strict \in BOOLEAN

Init ==
  /\ InputsInit
  /\ LocalsInit
  /\ call_no = 1
  /\ prev = NoCall

(* ------------------ lines 95-99: sizes and capacity check -------------- *)
Validate ==
  /\ pc = "start"
  /\ IF MinRaises(prompts_tokens)
       THEN pc' = "error" /\ error' = Raised("ValueError", 96)
       ELSE IF ~CapacityOk
         THEN pc' = "error" /\ error' = Raised("AssertionError", 99)
         ELSE pc' = "build_kv" /\ error' = error
  /\ UNCHANGED <<inputs, allocated, kv_caches, token_ids_tensor, input_token_ids_tensor,
                 prompt_mask_tensor, input_positions_tensor, att_mask,
                 output_positions_tensor, temperatures_tensor, output_index, step,
                 next_token_ids, results, decoder_calls, trace, fed, call_no, prev>>

(* ---------------------- lines 101-108: KV caches ----------------------- *)
\* torch.zeros((batch_size, n_kv_head, min_prompt_len, head_dim))
ZeroCache(cache_length) == [cache_length |-> cache_length, zero |-> TRUE]

\* Line 108 rebinds kv_caches to the pair just built instead of appending it:
\* after the loop kv_caches is the empty list (no layer) or one (k, v) tuple.
BuiltKVCaches(layers, cache_length) ==
  IF layers = 0 THEN <<>> ELSE <<ZeroCache(cache_length), ZeroCache(cache_length)>>

BuildKVCaches ==
  /\ pc = "build_kv"
  /\ IF ~has_config
       THEN /\ pc' = "error"
            /\ error' = Raised("AttributeError", 103)
            /\ UNCHANGED <<allocated, kv_caches>>
       ELSE /\ pc' = "prepare"
            /\ error' = error
            /\ kv_caches' = BuiltKVCaches(num_hidden_layers, min_prompt_len)
            /\ allocated' = allocated \cup {"kv_caches"}
  /\ UNCHANGED <<inputs, token_ids_tensor, input_token_ids_tensor,
                 prompt_mask_tensor, input_positions_tensor, att_mask,
                 output_positions_tensor, temperatures_tensor, output_index, step,
                 next_token_ids, results, decoder_calls, trace, fed, call_no, prev>>

(* -------------------- lines 110-147: prepare inputs -------------------- *)
\* lines 111-113 and 119: a row of token_ids_tensor before sos is prepended
PaddedRow(p, width) == [c \in 1..width |-> IF c <= Len(p) THEN p[c] ELSE IGNORE_ID]

PaddedTokenIds == [i \in 1..batch_size |-> PaddedRow(prompts_tokens[i], max_prompt_len)]

\* lines 114-116 and 120-121
PaddedInputTokenIds ==
  [i \in 1..batch_size |-> PySlice(prompts_tokens[i], 0, min_prompt_len)]

\* line 124: torch.tensor([self.sos] * batch_size).unsqueeze(0), shape (1, batch_size)
SosTensor == <<[c \in 1..batch_size |-> sos]>>

\* line 125
TokenIdsWithSos == Cat(SosTensor, PaddedTokenIds)

\* line 127 concatenates sos with token_ids_tensor (which line 125 has just
\* rebound to the sos-prefixed buffer), not with input_token_ids_tensor
InputTokenIdsWithSos == Cat(SosTensor, TokenIdsWithSos)

\* line 129
PromptMask(t) == [r \in 1..Len(t) |-> [c \in 1..Len(t[r]) |-> t[r][c] # IGNORE_ID]]

\* line 130: torch.arange(0, min_prompt_len)
Arange(n) == [k \in 1..n |-> k - 1]

\* lines 133-135: torch.triu(torch.ones(n, n), diagonal=1); entry (r, c), 0-based,
\* is true exactly when c > r
MaskTensor(n) == [r \in 1..n |-> [c \in 1..n |-> c > r]]

\* mask_tensor.index_select(2, positions): defined when every position is a row
MaskRowsOk(positions) ==
  \A k \in 1..Len(positions) : positions[k] \in 0..(max_prompt_len - 1)
MaskRows(positions) ==
  [k \in 1..Len(positions) |-> MaskTensor(max_prompt_len)[positions[k] + 1]]

\* the temperatures tensor built even when temperature is None
TemperaturesTensorAlways(t, n) ==
  IF t = "0.0" THEN NoTensor ELSE [k \in 1..n |-> t]

\* lines 140-141: None if not temperature else a tensor of batch_size copies
TemperaturesTensor(t, n) ==
  IF t = None \/ t = "0.0" THEN NoTensor ELSE [k \in 1..n |-> t]

PrepareInputs ==
  /\ pc = "prepare"
  /\ IF ~CatOk(SosTensor, PaddedTokenIds)
       THEN \* line 125 raises: the buffers of lines 111-121 exist, sos is not added
            /\ pc' = "error"
            /\ error' = Raised("RuntimeError", 125)
            /\ token_ids_tensor' = PaddedTokenIds
            /\ input_token_ids_tensor' = PaddedInputTokenIds
            /\ allocated' = allocated \cup {"token_ids_tensor"}
            /\ UNCHANGED <<prompt_mask_tensor, input_positions_tensor, att_mask,
                           output_positions_tensor, temperatures_tensor, output_index,
                           trace>>
       ELSE /\ token_ids_tensor' = TokenIdsWithSos
            /\ input_token_ids_tensor' = InputTokenIdsWithSos
            /\ prompt_mask_tensor' = PromptMask(TokenIdsWithSos)
            /\ input_positions_tensor' = Arange(min_prompt_len)
            /\ att_mask' = MaskRows(Arange(min_prompt_len))
            /\ output_positions_tensor' = min_prompt_len - 1
            /\ temperatures_tensor' = TemperaturesTensor(temperature, batch_size)
            /\ output_index' = min_prompt_len
            /\ allocated' = allocated \cup
                 {"token_ids_tensor", "prompt_mask_tensor", "mask_tensor"}
            /\ trace' = <<[buf |-> TokenIdsWithSos, sampled |-> <<>>]>>
            /\ IF EmbedOk(InputTokenIdsWithSos)
                 THEN pc' = "loop" /\ error' = error
                 ELSE pc' = "error" /\ error' = Raised("IndexError", 147)
  /\ UNCHANGED <<inputs, kv_caches, step, next_token_ids, results, decoder_calls,
                 fed, call_no, prev>>

(* ---------------------- lines 150-178: decode loop --------------------- *)
\* What self.decoder is handed: the number of input tokens per example, of
\* position indices and of causal-mask rows.
DecoderInputLen == Width(input_token_ids_tensor)
DecoderShapesAgree ==
  /\ DecoderInputLen = Len(input_positions_tensor)
  /\ Len(att_mask) = Len(input_positions_tensor)

\* lines 151-154: self.decoder(input_token_embeding, att_mask,
\* input_positions_tensor, kv_caches); the embedding has one vector per id
DecoderArguments ==
  [ids |-> input_token_ids_tensor, mask |-> att_mask,
   positions |-> input_positions_tensor, kv |-> kv_caches]

\* The decoder returns one output vector per input token.
DecoderOutLen == DecoderInputLen

\* The decoder writes keys and values into the caches it is handed and
\* returns them.
DecoderUpdatedCaches(kv) == [k \in 1..Len(kv) |-> [kv[k] EXCEPT !.zero = FALSE]]

RECURSIVE RowSum(_)
RowSum(row) == IF row = <<>> THEN 0 ELSE row[1] + RowSum(Tail(row))

\* A deterministic decoder followed by argmax: the chosen id is a function of
\* what the decoder was fed.
ArgmaxIds ==
  [r \in 1..batch_size |->
     (RowSum(input_token_ids_tensor[r]) + Len(input_positions_tensor)) % VocabSize]

\* sampler(decoder_out, temperatures, top_ps, top_ks): argmax when temperatures
\* is None, otherwise a draw from the vocabulary
SamplerOutputs(temperatures) ==
  IF temperatures = NoTensor THEN {ArgmaxIds} ELSE [1..batch_size -> Vocab]

\* torch.where with its two value arguments exchanged
WhereSwapped(cond, a, b) == [r \in 1..Len(cond) |-> IF cond[r] THEN b[r] ELSE a[r]]

\* line 166: torch.where(cond, a, b)
Where(cond, a, b) == [r \in 1..Len(cond) |-> IF cond[r] THEN a[r] ELSE b[r]]

\* unsqueeze(dim=1) of a vector: one column
Unsqueeze(v) == [r \in 1..Len(v) |-> <<v[r]>>]

Abort(t, l) == pc' = "error" /\ error' = Raised(t, l)

\* the position of the step before, handed to the decoder once more
NextInputPositionsStale(index) == <<index - 1>>

\* line 172: output_index.unsqueeze(dim=-1)
NextInputPositions(index) == <<index>>

\* lines 162-178, once the sampler has returned `sampled`
WriteAndAdvance(sampled) ==
  LET curr_prompt_mask == Column(prompt_mask_tensor, output_index)
      curr_token_ids == Column(token_ids_tensor, output_index)
      output_token_ids == Where(curr_prompt_mask, curr_token_ids, sampled)
      written == IndexCopy(token_ids_tensor, output_index, output_token_ids)
  IN /\ token_ids_tensor' = written
     /\ trace' = Append(trace, [buf |-> written, sampled |-> sampled])
     /\ input_token_ids_tensor' = Unsqueeze(output_token_ids)
     /\ IF ~EmbedOk(Unsqueeze(output_token_ids))
          THEN \* line 171
               /\ Abort("IndexError", 171)
               /\ UNCHANGED <<input_positions_tensor, att_mask,
                              output_positions_tensor, output_index, step>>
          ELSE /\ input_positions_tensor' = NextInputPositions(output_index)
               /\ IF ~MaskRowsOk(NextInputPositions(output_index))
                    THEN \* line 173: the position is not a row of mask_tensor
                         /\ Abort("IndexError", 173)
                         /\ UNCHANGED <<att_mask, output_positions_tensor,
                                        output_index, step>>
                    ELSE /\ att_mask' = MaskRows(NextInputPositions(output_index))
                         /\ output_positions_tensor' = 0
                         /\ output_index' = output_index + 1
                         /\ step' = step + 1
                         /\ UNCHANGED <<pc, error>>

\* lines 156-178
SampleAndMerge ==
  \E sampled \in SamplerOutputs(temperatures_tensor) :
    /\ next_token_ids' = sampled
    /\ IF ~ColumnOk(prompt_mask_tensor, output_index)
         THEN \* line 162: the write index is not a column of the buffer
              /\ Abort("IndexError", 162)
              /\ UNCHANGED <<token_ids_tensor, trace, input_token_ids_tensor,
                             input_positions_tensor, att_mask,
                             output_positions_tensor, output_index, step>>
         ELSE WriteAndAdvance(sampled)

\* one iteration of the loop of line 150
DecodeStep ==
  /\ pc = "loop"
  /\ step < max_seq_len - min_prompt_len
  /\ decoder_calls' = decoder_calls + 1
  /\ fed' = Append(fed, DecoderArguments)
  /\ IF decoder_strict /\ ~DecoderShapesAgree
       THEN \* line 151: the decoder rejects its arguments
            /\ Abort("ShapeError", 151)
            /\ UNCHANGED <<kv_caches, next_token_ids, token_ids_tensor, trace,
                           input_token_ids_tensor, input_positions_tensor, att_mask,
                           output_positions_tensor, output_index, step>>
       ELSE /\ kv_caches' = DecoderUpdatedCaches(kv_caches)
            /\ IF output_positions_tensor \notin 0..(DecoderOutLen - 1)
                 THEN \* line 155: index_select with an index out of range
                      /\ Abort("IndexError", 155)
                      /\ UNCHANGED <<next_token_ids, token_ids_tensor, trace,
                                     input_token_ids_tensor, input_positions_tensor,
                                     att_mask, output_positions_tensor, output_index,
                                     step>>
                 ELSE SampleAndMerge
  /\ UNCHANGED <<inputs, allocated, prompt_mask_tensor, temperatures_tensor, results,
                 call_no, prev>>

(* -------------------- lines 180-190: output extraction ----------------- *)
\* the slice taken one entry too long
TrimmedOutputLong(tokens, prompt, n) == PySlice(tokens, Len(prompt), Len(prompt) + n + 1)

\* lines 183-184: tokens[len(prompt) : len(prompt) + output_len]
TrimmedOutput(tokens, prompt, n) == PySlice(tokens, Len(prompt), Len(prompt) + n)

\* the truncation keeping the end-of-sequence id
EosTruncateInclusive(out) ==
  IF PyIn(eos, out) THEN PySlice(out, 0, PyIndex(out, eos) + 1) ELSE out

\* lines 185-187
EosTruncate(out) ==
  IF PyIn(eos, out) THEN PySlice(out, 0, PyIndex(out, eos)) ELSE out

Extract ==
  /\ pc = "loop"
  /\ ~(step < max_seq_len - min_prompt_len)
  /\ results' = [i \in 1..Len(token_ids_tensor) |->
                   EosTruncate(TrimmedOutput(token_ids_tensor[i], prompts_tokens[i],
                                             output_len))]
  /\ pc' = "done"
  /\ UNCHANGED <<inputs, error, allocated, kv_caches, token_ids_tensor,
                 input_token_ids_tensor, prompt_mask_tensor, input_positions_tensor,
                 att_mask, output_positions_tensor, temperatures_tensor, output_index,
                 step, next_token_ids, decoder_calls, trace, fed, call_no, prev>>

Next == Validate \/ BuildKVCaches \/ PrepareInputs \/ DecodeStep \/ Extract

Spec == Init /\ [][Next]_vars

(* ------------- a second generate call on the same arguments ------------ *)
SecondCall ==
  /\ call_no = 1
  /\ pc \in {"done", "error"}
  /\ call_no' = 2
  /\ prev' = [trace |-> trace, results |-> results, pc |-> pc, error |-> error]
  /\ pc' = "start"
  /\ error' = NoError
  /\ allocated' = {}
  /\ kv_caches' = <<>>
  /\ token_ids_tensor' = <<>>
  /\ input_token_ids_tensor' = <<>>
  /\ prompt_mask_tensor' = <<>>
  /\ input_positions_tensor' = <<>>
  /\ att_mask' = <<>>
  /\ output_positions_tensor' = 0
  /\ temperatures_tensor' = NoTensor
  /\ output_index' = 0
  /\ step' = 0
  /\ next_token_ids' = <<>>
  /\ results' = <<>>
  /\ decoder_calls' = 0
  /\ trace' = <<>>
  /\ fed' = <<>>
  /\ UNCHANGED inputs

NextTwice == Next \/ SecondCall

SpecTwice == Init /\ [][NextTwice]_vars

(* ---------- the extraction of lines 180-190 on its own inputs ---------- *)
\* ids a decode loop may have left behind a prompt: generated ids, or the
\* sentinel in every slot
FillTokens == {0, eos}
Fills(k) == [1..k -> FillTokens] \cup {[j \in 1..k |-> IGNORE_ID]}

\* rows sos, prompt, fill of a common width 1 + max_prompt_len + extra
RowsOf(p, extra) ==
  {<<sos>> \o p \o f : f \in Fills(max_prompt_len - Len(p) + extra)}

RECURSIVE BuffersUpTo(_, _)
BuffersUpTo(i, extra) ==
  IF i = 0 THEN {<<>>}
  ELSE {Append(b, r) : b \in BuffersUpTo(i - 1, extra),
                       r \in RowsOf(prompts_tokens[i], extra)}

InitExtract ==
  /\ prompts_tokens \in Batches \ {<<>>}
  /\ output_len \in 0..MaxOutputLen
  /\ temperature = None
  /\ max_len = MaxPosLen
  /\ CapacityOk
  /\ has_config = TRUE
  /\ num_hidden_layers = 0
  /\ decoder_strict = FALSE
  /\ pc = "loop"
  /\ error = NoError
  /\ allocated = {"kv_caches", "token_ids_tensor", "prompt_mask_tensor", "mask_tensor"}
  /\ kv_caches = <<>>
  /\ \E extra \in {0, output_len} :
       \* the width line 111 allocates, or room for output_len more entries
       token_ids_tensor \in BuffersUpTo(batch_size, extra)
  /\ input_token_ids_tensor = <<>>
  /\ prompt_mask_tensor = PromptMask(TokenIdsWithSos)
  /\ input_positions_tensor = <<>>
  /\ att_mask = <<>>
  /\ output_positions_tensor = 0
  /\ temperatures_tensor = NoTensor
  /\ output_index = max_seq_len
  /\ step = max_seq_len - min_prompt_len
  /\ next_token_ids = <<>>
  /\ results = <<>>
  /\ decoder_calls = max_seq_len - min_prompt_len
  /\ trace = <<>>
  /\ fed = <<>>
  /\ call_no = 1
  /\ prev = NoCall

NextExtract == Extract

SpecExtract == InitExtract /\ [][NextExtract]_vars
(* ============================== claims ================================= *)
Finished == pc \in {"done", "error"}
\* the call got past line 128: token_ids_tensor carries sos in column 0
Aligned == pc \in {"loop", "done"} \/ (pc = "error" /\ error.line >= 147)
\* the requested total length fits the decoder's maximum position
FitsCapacity == max_prompt_len + output_len <= max_len

\* C1: after alignment and after any number of decode steps, the buffer
\* entries covering each example's prompt (columns 1..len(prompt), behind
\* sos) equal the prompt, and no write changed an entry at which PromptMask
\* is true.
C1_PromptPreservation ==
  Aligned =>
    /\ \A i \in 1..batch_size : \A j \in 1..Len(prompts_tokens[i]) :
         token_ids_tensor[i][j + 1] = prompts_tokens[i][j]
    /\ \A k \in 1..Len(trace) : \A i \in 1..batch_size :
         \A c \in 1..Len(prompt_mask_tensor[i]) :
           prompt_mask_tensor[i][c] => trace[k].buf[i][c] = trace[1].buf[i][c]

\* a decode step has written at a column where PromptMask is true while the
\* sampler proposed a different id
C1_Witness ==
  /\ Aligned
  /\ Len(trace) = 2
  /\ prompt_mask_tensor[1][output_index + 1]
  /\ next_token_ids[1] # token_ids_tensor[1][output_index + 1]
\* the entries of row i that the claim C2 names: output_len entries from the
\* column right behind the prompt (sos is column 0, the prompt columns
\* 1..len(prompt))
EntriesBehindPrompt(i) ==
  PySlice(token_ids_tensor[i], Len(prompts_tokens[i]) + 1,
          Len(prompts_tokens[i]) + 1 + output_len)

C3_TerminationStepCount ==
  (Finished /\ batch_size >= 1) =>
    (FitsCapacity =>
       /\ pc = "done"
       /\ decoder_calls = max_prompt_len + output_len - min_prompt_len
       /\ step = decoder_calls
       /\ output_index = max_seq_len)

\* C4: when max_prompt_len + output_len exceeds the decoder's maximum
\* position the call ends with the capacity check's exception, with no
\* decoder invocation, nothing allocated and no results.
C4_ConfigurationFailure ==
  (batch_size >= 1 /\ ~FitsCapacity) =>
    /\ decoder_calls = 0
    /\ results = <<>>
    /\ allocated = {}
    /\ pc \in {"start", "error"}
    /\ pc = "error" => error = Raised("AssertionError", 99)

C4_Witness ==
  /\ batch_size >= 1
  /\ max_prompt_len + output_len > max_len
  /\ min_prompt_len + output_len <= max_len
  /\ pc = "error"
  /\ error.line = 99

\* C5: a call with zero prompts is rejected (the exception of line 96) before
\* any KV cache, token buffer or mask is allocated and before any decoder
\* invocation.
C5_EmptyBatch ==
  Len(prompts_tokens) = 0 =>
    /\ allocated = {}
    /\ decoder_calls = 0
    /\ results = <<>>
    /\ pc \in {"start", "error"}
    /\ pc = "error" => error = Raised("ValueError", 96)

C5_Witness == Len(prompts_tokens) = 0 /\ pc = "error" /\ error.line = 96

\* C6: if the first end-of-sequence id of an example's untruncated
\* continuation is at 0-based position k, the returned sequence is the first
\* k entries of the continuation and holds no end-of-sequence id; if there is
\* none, the continuation is returned unchanged.
C6_EosTruncation ==
  pc = "done" =>
    \A i \in 1..batch_size :
      LET cont == TrimmedOutput(token_ids_tensor[i], prompts_tokens[i], output_len)
          firsts == {k \in 0..(Len(cont) - 1) :
                       /\ cont[k + 1] = eos
                       /\ \A j \in 1..k : cont[j] # eos}
      IN /\ \A k \in firsts :
              /\ Len(results[i]) = k
              /\ \A j \in 1..k : results[i][j] = cont[j] /\ results[i][j] # eos
         /\ firsts = {} => results[i] = cont

\* an end-of-sequence id behind at least one other entry has been cut off
C6_Witness ==
  /\ pc = "done"
  /\ \E i \in 1..batch_size :
       LET cont == TrimmedOutput(token_ids_tensor[i], prompts_tokens[i], output_len)
       IN /\ Len(cont) >= 2
          /\ cont[1] # eos
          /\ cont[2] = eos
          /\ results[i] = <<cont[1]>>

\* C7: a completed call returns one sequence per prompt, the i-th taken from
\* the i-th row of the buffer, each of length at most output_len.
C7_OutputShape ==
  pc = "done" =>
    /\ Len(results) = batch_size
    /\ \A i \in 1..batch_size :
         /\ Len(results[i]) <= output_len
         /\ results[i] = PySlice(token_ids_tensor[i], Len(prompts_tokens[i]),
                                 Len(prompts_tokens[i]) + Len(results[i]))

\* two examples, the first returned at full length and unlike the second
C7_Witness ==
  /\ pc = "done"
  /\ batch_size = 2
  /\ output_len >= 1
  /\ Len(results[1]) = output_len
  /\ results[1] # results[2]

AllPromptsSameLength == batch_size >= 1 /\ min_prompt_len = max_prompt_len

C9_ZeroOutputLength ==
  (Finished /\ batch_size >= 1 /\ output_len = 0) =>
    (FitsCapacity =>
       /\ pc = "done"
       /\ decoder_calls = max_prompt_len - min_prompt_len
       /\ Len(results) = batch_size
       /\ \A i \in 1..Len(results) : results[i] = <<>>)

\* whether s is an initial segment of t
IsPrefix(s, t) == Len(s) <= Len(t) /\ \A k \in 1..Len(s) : s[k] = t[k]

RECURSIVE FedStream(_, _)
FedStream(i, n) == IF n = 0 THEN <<>> ELSE FedStream(i, n - 1) \o fed[n].ids[i]

\* the ids the sampler has returned for example i so far
SampledIds(i) == {trace[k].sampled[i] : k \in 2..Len(trace)}

\* C11: the ordered stream of ids handed to the decoder for an example is
\* sos, then the example's prompt tokens once each in their order, then only
\* ids the sampler returned (stated for every initial segment of the stream).
C11_FaithfulReplay ==
  \A i \in 1..batch_size :
    LET stream == FedStream(i, Len(fed))
        prompt == prompts_tokens[i]
    IN \A j \in 1..Len(stream) :
         IF j = 1 THEN stream[j] = sos
         ELSE IF j <= Len(prompt) + 1 THEN stream[j] = prompt[j - 1]
         ELSE stream[j] \in SampledIds(i)

\* C12: the window handed to the first decoder call is, for each example, one
\* sos followed by the first min_prompt_len tokens of the example's prompt and
\* nothing else.
C12_PrefillWindow ==
  Len(fed) >= 1 =>
    \A i \in 1..batch_size :
      fed[1].ids[i] = <<sos>> \o PySlice(prompts_tokens[i], 0, min_prompt_len)

\* C13: once the buffers are built in a call that passes the capacity check,
\* token_ids_tensor and prompt_mask_tensor cover max_seq_len positions per
\* example, and the write index of a step about to run is one of their columns.
C13_TokenBufferBounds ==
  (Aligned /\ FitsCapacity) =>
    /\ Width(token_ids_tensor) >= max_seq_len
    /\ Width(prompt_mask_tensor) >= max_seq_len
    /\ (pc = "loop" /\ step < max_seq_len - min_prompt_len) =>
         ColumnOk(token_ids_tensor, output_index)

\* C14: in a call that passes the capacity check, every position used to
\* select rows of mask_tensor is one of its rows, and the row selected for
\* position r forbids exactly the columns j > r.
C14_MaskSliceBounds ==
  (Aligned /\ FitsCapacity) =>
    /\ MaskRowsOk(input_positions_tensor)
    /\ Len(att_mask) = Len(input_positions_tensor)
    /\ \A k \in 1..Len(att_mask) : \A c \in 1..Len(att_mask[k]) :
         att_mask[k][c] = (c - 1 > input_positions_tensor[k])

\* C15: every decoder call is handed as many input tokens per example as
\* position indices and as causal-mask rows; after the first call, one of each.
C15_DecoderCallShapes ==
  \A k \in 1..Len(fed) :
    /\ Width(fed[k].ids) = Len(fed[k].positions)
    /\ Len(fed[k].mask) = Len(fed[k].positions)
    /\ k > 1 => Len(fed[k].positions) = 1

\* one layer's entry of a well-formed cache list: a (key, value) pair
KVPair(k_cache, v_cache) == [key |-> k_cache, value |-> v_cache]

\* C16: the cache handed to the first decoder call has one entry per decoder
\* layer, each a pair of zero tensors of cache_length min_prompt_len.
C16_KVCacheAllocation ==
  Len(fed) >= 1 =>
    /\ Len(fed[1].kv) = num_hidden_layers
    /\ \A l \in 1..Len(fed[1].kv) :
         fed[1].kv[l] = KVPair(ZeroCache(min_prompt_len), ZeroCache(min_prompt_len))

LargestPosition(positions) ==
  IF positions = <<>> THEN -1 ELSE positions[Len(positions)]

\* the latest iteration got past line 172
PositionsAdvanced ==
  \/ pc = "error" /\ error.line = 173
  \/ pc \in {"loop", "done"} /\ step = Len(fed)

C19_StepFrame ==
  [][(pc = "loop" /\ fed' # fed) =>
       /\ Len(token_ids_tensor') = Len(token_ids_tensor)
       /\ \A r \in 1..Len(token_ids_tensor) :
            /\ Len(token_ids_tensor'[r]) = Len(token_ids_tensor[r])
            /\ \A c \in 1..Len(token_ids_tensor[r]) :
                 c # output_index + 1 => token_ids_tensor'[r][c] = token_ids_tensor[r][c]
       /\ prompt_mask_tensor' = prompt_mask_tensor
       /\ prompts_tokens' = prompts_tokens
       /\ output_len' = output_len
       /\ temperature' = temperature
       /\ temperatures_tensor' = temperatures_tensor]_vars

\* a step has written its column, and the sampler's id differed from the
\* prompt token the write kept
C19_Witness ==
  /\ Len(trace) = 2
  /\ Len(fed) = 1
  /\ trace[2].sampled[1] # trace[2].buf[1][output_index + 1]

\* C20: at the head of the loop, every buffer entry below the write index is
\* a token id, and every entry at or beyond it is IGNORE_ID or the prompt
\* token of that column (the prompt sits behind sos), still to be written.
C20_StepBoundary ==
  pc = "loop" =>
    \A i \in 1..batch_size : \A c \in 1..Len(token_ids_tensor[i]) :
      IF c - 1 < output_index
        THEN token_ids_tensor[i][c] \in Vocab
        ELSE \/ token_ids_tensor[i][c] = IGNORE_ID
             \/ /\ c - 1 \in 1..Len(prompts_tokens[i])
                /\ token_ids_tensor[i][c] = prompts_tokens[i][c - 1]
====
